---- MODULE Spec2Model ----
(***************************************************************************)
(* A model of chrismalcolm/go-cli: the grammar validator (LoadConfig and   *)
(* the validate methods), the three resolvers (extractCommand,             *)
(* extractArgument, extractFlags), the help generator, getOutput and the   *)
(* read/prompt/write loop of App.Run.                                      *)
(*                                                                         *)
(* Strings are sequences of one-character strings, so that Go's            *)
(* strings.Index, HasSuffix, Trim and Split are computed character by      *)
(* character. A nil error is the empty sequence; every error the code      *)
(* builds has a non-empty message.                                         *)
(***************************************************************************)
EXTENDS Naturals, Integers, Sequences, FiniteSets, TLC

VARIABLES
    config,     \* the *Config the App holds (LoadConfig's result, bindings included)
    pc,         \* position of the read loop goroutine / of the pure call
    main,       \* position of the goroutine that called Run
    active,     \* App.active
    sigint,     \* App.sigint, a channel of capacity 1
    input,      \* the line last read (or the input of the pure call)
    output,     \* the bytes getOutput returned (or the result of the pure call)
    written,    \* the bytes last written to the writer
    calls,      \* handlers invoked by the last step: <<[slot, flags]>>
    exitCalls,  \* number of times config.exit has been invoked
    prompts,    \* number of prompts written
    linesRead   \* number of lines read

vars == <<config, pc, main, active, sigint, input, output, written, calls,
          exitCalls, prompts, linesRead>>

----------------------------------------------------------------------------
(* Bounds of the model.                                                    *)

\* lines the read loop reads in one run
MaxLines == 2
\* space-separated tokens of an options text given to extractFlags
MaxTokens == 3
\* space-separated words of a line given to getOutput / extractCommand
MaxWords == 3
\* the longest list of Arguments or of Options given to validate
MaxItems == 3

----------------------------------------------------------------------------
(* Go strings.                                                             *)

S(s) == [i \in 1..Len(s) |-> SubSeq(s, i, i)]

\* s[a:b] with Go's 0-based, half-open indices
Slice(s, a, b) == SubSeq(s, a + 1, b)

HasPrefix(s, p) == Len(p) <= Len(s) /\ SubSeq(s, 1, Len(p)) = p

HasSuffix(s, p) == Len(p) <= Len(s) /\ SubSeq(s, Len(s) - Len(p) + 1, Len(s)) = p

\* strings.Index: the 0-based index of the first occurrence of sub in s, or -1
Index(s, sub) ==
    LET hits == {i \in 0..(Len(s) - Len(sub)) : Slice(s, i, i + Len(sub)) = sub}
    IN  IF hits = {} THEN -1 ELSE CHOOSE i \in hits : \A j \in hits : i <= j

Chars(s) == {s[i] : i \in 1..Len(s)}

ContainsAny(s, chars) == Chars(s) \cap Chars(chars) # {}

RECURSIVE TrimLeft(_, _)
TrimLeft(s, cutset) ==
    IF s # <<>> /\ Head(s) \in Chars(cutset) THEN TrimLeft(Tail(s), cutset) ELSE s

RECURSIVE TrimRight(_, _)
TrimRight(s, cutset) ==
    IF s # <<>> /\ s[Len(s)] \in Chars(cutset)
    THEN TrimRight(SubSeq(s, 1, Len(s) - 1), cutset)
    ELSE s

Trim(s, cutset) == TrimRight(TrimLeft(s, cutset), cutset)

\* strings.Split(s, sep) for a one-character sep: always at least one piece
RECURSIVE Split(_, _)
Split(s, sep) ==
    LET i == Index(s, sep)
    IN  IF i = -1 THEN <<s>>
        ELSE <<Slice(s, 0, i)>> \o Split(Slice(s, i + 1, Len(s)), sep)

RECURSIVE Join(_, _)
Join(parts, sep) ==
    IF parts = <<>> THEN <<>>
    ELSE IF Len(parts) = 1 THEN parts[1]
    ELSE parts[1] \o sep \o Join(Tail(parts), sep)

whitespaceCharacters == S(" \n\r\t")

\* a nil error
NoErr == <<>>

----------------------------------------------------------------------------
(* The grammar model: Config, Command, Argument, Option, Variable.         *)
(* A nil *Variable is <<>>, a present one is <<[Label, Required, Default]>>*)
(* A func(Flags) []byte value is a record [kind, name]:                    *)
(*   nil            the zero value                                         *)
(*   empty          LoadConfig's placeholder for init and exit             *)
(*   notConfigured  Command.createExecutable's placeholder                 *)
(*   method         a method of the program, bound by withProgram          *)

Variable(label, required, default) ==
    [Label |-> S(label), Required |-> required, Default |-> S(default)]

Option(label, short, long, variable, help) ==
    [Label |-> S(label), Short |-> S(short), Long |-> S(long),
     Variable |-> variable, HelpMsg |-> S(help)]

NilFunc == [kind |-> "nil", name |-> <<>>]

Argument(label, options, execFunc, help) ==
    [Label |-> S(label), Options |-> options, ExecFunc |-> S(execFunc),
     executable |-> NilFunc, HelpMsg |-> S(help)]

Command(label, arguments) == [Label |-> S(label), Arguments |-> arguments]

Config(prompt, commands, initFunc, exitFunc, exitCmd, helpCmd) ==
    [Prompt |-> S(prompt), Commands |-> commands,
     InitFunc |-> S(initFunc), init |-> NilFunc,
     ExitFunc |-> S(exitFunc), exit |-> NilFunc,
     ExitCmd |-> S(exitCmd), HelpCmd |-> S(helpCmd)]

----------------------------------------------------------------------------
(* The grammar validator.                                                  *)

\* Variable.validate
VariableValidate(va) ==
    IF va.Label = <<>> THEN S("empty variable label detected")
    ELSE IF ContainsAny(va.Label, S("\n\r\t"))
    THEN S("invalid variable label \"") \o va.Label
            \o S("\", invalid whitespace characters detected")
    ELSE NoErr

\* Option.validate
OptionValidate(opt) ==
    IF opt.Label = <<>> THEN S("empty option label detected")
    ELSE IF ContainsAny(opt.Label, S("\n\r\t"))
    THEN S("invalid option label \"") \o opt.Label
            \o S("\", invalid whitespace characters detected")
    ELSE IF opt.Short = <<>> /\ opt.Long = <<>>
    THEN S("at least one of option short or option long must be provided")
    ELSE IF opt.Short # <<>> /\ ~HasPrefix(opt.Short, S("-"))
    THEN S("invalid option short \"") \o opt.Short
            \o S("\", must start with a single dash (-)")
    ELSE IF opt.Short # <<>> /\ Len(opt.Short) # 2
    THEN S("invalid option short \"") \o opt.Short
            \o S("\", must be a single dash (-) followed by a single character")
    ELSE IF opt.Short # <<>> /\ ContainsAny(Slice(opt.Short, 1, Len(opt.Short)), S(" \n\r\t"))
    THEN S("invalid option short \"") \o opt.Short
            \o S("\", whitespace characters detected")
    ELSE IF opt.Short # <<>> /\ ContainsAny(Slice(opt.Short, 1, Len(opt.Short)), S("[]{}()-="))
    THEN S("invalid option short \"") \o opt.Short
            \o S("\", invalid characters detected")
    ELSE IF opt.Long # <<>> /\ ~HasPrefix(opt.Long, S("--"))
    THEN S("invalid option long \"") \o opt.Long
            \o S("\", must start with a double dash (--)")
    ELSE IF opt.Long # <<>> /\ Len(opt.Long) = 2
    THEN S("invalid option long \"") \o opt.Long
            \o S("\", must be longer than two characters")
    ELSE IF opt.Long # <<>> /\ ContainsAny(opt.Long, S("\n\r\t"))
    THEN S("invalid option long \"") \o opt.Long
            \o S("\", special whitespace characters detected")
    ELSE IF opt.Long # <<>> /\ ContainsAny(opt.Long, S("[]{}()="))
    THEN S("invalid option long \"") \o opt.Long
            \o S("\", invalid characters detected")
    ELSE IF opt.Variable # <<>> /\ VariableValidate(opt.Variable[1]) # NoErr
    THEN S("option \"") \o opt.Label \o S("\", ") \o VariableValidate(opt.Variable[1])
    ELSE NoErr

\* the loop remembering only the Option just before
RECURSIVE ArgumentValidateOptions_lastOnly(_, _, _, _, _)
ArgumentValidateOptions_lastOnly(arg, i, labels, shorts, longs) ==
    IF i > Len(arg.Options) THEN NoErr
    ELSE
        LET opt == arg.Options[i]
        IN  IF OptionValidate(opt) # NoErr
            THEN S("argument \"") \o arg.Label \o S("\", ") \o OptionValidate(opt)
            ELSE IF opt.Label \in labels
            THEN S("multiple occurrences of the option label")
            ELSE IF opt.Short # <<>> /\ opt.Short \in shorts
            THEN S("multiple occurrences of the option short")
            ELSE IF opt.Long # <<>> /\ opt.Long \in longs
            THEN S("multiple occurrences of the option long")
            ELSE ArgumentValidateOptions_lastOnly(arg, i + 1,
                    {opt.Label}, {opt.Short} \ {<<>>}, {opt.Long} \ {<<>>})

\* The loop of Argument.validate over arg.Options from index i on, with the
\* labels, shorts and longs seen so far.
RECURSIVE ArgumentValidateOptions(_, _, _, _, _)
ArgumentValidateOptions(arg, i, labels, shorts, longs) ==
    IF i > Len(arg.Options) THEN NoErr
    ELSE
        LET opt == arg.Options[i]
        IN  IF OptionValidate(opt) # NoErr
            THEN S("argument \"") \o arg.Label \o S("\", ") \o OptionValidate(opt)
            ELSE IF opt.Label \in labels
            THEN S("argument \"") \o arg.Label
                    \o S("\", multiple occurrences of the option label \"")
                    \o opt.Label \o S("\"")
            ELSE IF opt.Short # <<>> /\ opt.Short \in shorts
            THEN S("argument \"") \o arg.Label
                    \o S("\", multiple occurrences of the option short \"")
                    \o opt.Short \o S("\"")
            ELSE IF opt.Long # <<>> /\ opt.Long \in longs
            THEN S("argument \"") \o arg.Label
                    \o S("\", multiple occurrences of the option long \"")
                    \o opt.Long \o S("\"")
            ELSE ArgumentValidateOptions(arg, i + 1,
                    labels \cup {opt.Label},
                    IF opt.Short # <<>> THEN shorts \cup {opt.Short} ELSE shorts,
                    IF opt.Long # <<>> THEN longs \cup {opt.Long} ELSE longs)

\* Argument.validate
ArgumentValidate(arg) ==
    IF ContainsAny(arg.Label, S("\n\r\t"))
    THEN S("invalid argument label \"") \o arg.Label
            \o S("\", invalid special whitespace characters detected")
    ELSE IF TrimLeft(arg.Label, S(" ")) # arg.Label
    THEN S("invalid argument label \"") \o arg.Label \o S("\", spaces detected at start")
    ELSE IF TrimRight(arg.Label, S(" ")) # arg.Label
    THEN S("invalid argument label \"") \o arg.Label \o S("\", spaces detected at end")
    ELSE ArgumentValidateOptions(arg, 1, {}, {}, {})

\* The loop of Command.validate over cmd.Arguments from index i on, with the
\* labels seen so far.
RECURSIVE CommandValidateArguments(_, _, _)
CommandValidateArguments(cmd, i, labels) ==
    IF i > Len(cmd.Arguments) THEN NoErr
    ELSE
        LET arg == cmd.Arguments[i]
        IN  IF ArgumentValidate(arg) # NoErr
            THEN S("command \"") \o cmd.Label \o S("\", ") \o ArgumentValidate(arg)
            ELSE IF arg.Label \in labels
            THEN S("command \"") \o cmd.Label
                    \o S("\", multiple occurrences of the argument label \"")
                    \o arg.Label \o S("\"")
            ELSE CommandValidateArguments(cmd, i + 1, labels \cup {arg.Label})

\* Command.validate
CommandValidate(cmd) ==
    IF cmd.Label = <<>> THEN S("empty command label detected")
    ELSE IF ContainsAny(cmd.Label, S(" \n\r\t"))
    THEN S("invalid command label \"") \o cmd.Label
            \o S("\", invalid whitespace characters detected")
    ELSE IF Len(cmd.Arguments) = 0
    THEN S("command \"") \o cmd.Label \o S("\" requires at least one argument")
    ELSE CommandValidateArguments(cmd, 1, {})

\* The validation loop of LoadConfig over config.Commands from index i on.
RECURSIVE LoadConfigValidateCommands(_, _)
LoadConfigValidateCommands(cfg, i) ==
    IF i > Len(cfg.Commands) THEN NoErr
    ELSE
        LET command == cfg.Commands[i]
        IN  IF command.Label = cfg.ExitCmd
            THEN S("command cannot share same label as exit command \"")
                    \o cfg.ExitCmd \o S("\"")
            ELSE IF command.Label = cfg.HelpCmd
            THEN S("command cannot share same label as help command \"")
                    \o cfg.HelpCmd \o S("\"")
            ELSE IF CommandValidate(command) # NoErr THEN CommandValidate(command)
            ELSE LoadConfigValidateCommands(cfg, i + 1)

\* Command.createExecutable: the placeholder executable of an Argument
createExecutable(arg) == [kind |-> "notConfigured", name |-> arg.ExecFunc]

\* LoadConfig's placeholder for init and exit: func(Flags) []byte { return "" }
EmptyFunc == [kind |-> "empty", name |-> <<>>]

\* The second half of LoadConfig: the placeholders attached to a valid config.
LoadConfigPlaceholders(cfg) ==
    [cfg EXCEPT
        !.init = EmptyFunc,
        !.exit = EmptyFunc,
        !.Commands = [i \in 1..Len(cfg.Commands) |->
            [cfg.Commands[i] EXCEPT !.Arguments =
                [j \in 1..Len(cfg.Commands[i].Arguments) |->
                    [cfg.Commands[i].Arguments[j] EXCEPT
                        !.executable = createExecutable(cfg.Commands[i].Arguments[j])]]]]]

\* LoadConfig, from the unmarshalled Config on: [config, err]
LoadConfig(cfg) ==
    IF cfg.ExitCmd = <<>>
    THEN [config |-> cfg, err |-> S("missing/empty exit command \"exitCmd\"")]
    ELSE IF cfg.HelpCmd = <<>>
    THEN [config |-> cfg, err |-> S("missing/empty help command \"helpCmd\"")]
    ELSE IF Len(cfg.Commands) = 0
    THEN [config |-> cfg, err |-> S("missing/empty commands \"commands\"")]
    ELSE IF LoadConfigValidateCommands(cfg, 1) # NoErr
    THEN [config |-> cfg, err |-> LoadConfigValidateCommands(cfg, 1)]
    ELSE [config |-> LoadConfigPlaceholders(cfg), err |-> NoErr]

----------------------------------------------------------------------------
(* Flags and the functions bound to the grammar.                           *)

\* flagMetadata
flagMetadata(isset, hasVar, variable) ==
    [isset |-> isset, hasVar |-> hasVar, variable |-> variable]

\* Flags{}: the zero value, whose mapping is nil
NoFlags == [l \in {} |-> flagMetadata(FALSE, FALSE, <<>>)]

\* The sample program of the README: what each of its methods returns.
ProgramMethod(name) ==
    IF name = S("Setup") THEN S("Starting\n")
    ELSE IF name = S("Leave") THEN S("Leaving\n")
    ELSE name \o S(" called\n")

\* The bytes a func(Flags) []byte value returns when called.
CallFunc(f) ==
    IF f.kind = "empty" THEN <<>>
    ELSE IF f.kind = "notConfigured" THEN S("\"") \o f.name \o S("\" is not configured\n")
    ELSE ProgramMethod(f.name)

----------------------------------------------------------------------------
(* The command resolver.                                                   *)

\* the zero Command and the zero Argument
ZeroCommand == [Label |-> <<>>, Arguments |-> <<>>]

ZeroArgument ==
    [Label |-> <<>>, Options |-> <<>>, ExecFunc |-> <<>>, executable |-> NilFunc,
     HelpMsg |-> <<>>]

\* The search loop of extractCommand: the first Command labelled commandLabel,
\* as a sequence of at most one Command.
RECURSIVE FindCommand(_, _, _)
FindCommand(commands, i, commandLabel) ==
    IF i > Len(commands) THEN <<>>
    ELSE IF commands[i].Label = commandLabel THEN <<commands[i]>>
    ELSE FindCommand(commands, i + 1, commandLabel)

\* extractCommand with the remainder taken right after the space, untrimmed
extractCommand_noTrim(cfg, in) ==
    LET index == Index(in, S(" "))
        commandLabel == IF index = -1 THEN in ELSE Slice(in, 0, index)
        remainingInput == IF index = -1 THEN <<>> ELSE Slice(in, index + 1, Len(in))
        found == FindCommand(cfg.Commands, 1, commandLabel)
    IN  IF found # <<>>
        THEN [command |-> found[1], remainingInput |-> remainingInput, err |-> NoErr]
        ELSE [command |-> ZeroCommand, remainingInput |-> remainingInput,
              err |-> S("unable to find command \"") \o commandLabel \o S("\"")]

\* App.extractCommand: [command, remainingInput, err]
extractCommand(cfg, in) ==
    LET index == Index(in, S(" "))
        commandLabel == IF index = -1 THEN in ELSE Slice(in, 0, index)
        remainingInput ==
            IF index = -1 THEN <<>>
            ELSE TrimLeft(Slice(in, index, Len(in)), whitespaceCharacters)
        found == FindCommand(cfg.Commands, 1, commandLabel)
    IN  IF found # <<>>
        THEN [command |-> found[1], remainingInput |-> remainingInput, err |-> NoErr]
        ELSE [command |-> ZeroCommand, remainingInput |-> remainingInput,
              err |-> S("unable to find command \"") \o commandLabel \o S("\"")]

----------------------------------------------------------------------------
(* The argument resolver.                                                  *)

\* the loop with the empty-label Argument ending the search
RECURSIVE ExtractArgumentLoop_emptyWins(_, _, _, _)
ExtractArgumentLoop_emptyWins(remainingInput, command, i, st) ==
    IF i > Len(command.Arguments) THEN st
    ELSE
        LET arg == command.Arguments[i]
            index == Index(remainingInput, arg.Label)
            after == Slice(remainingInput, index + Len(arg.Label), Len(remainingInput))
        IN  IF arg.Label = <<>>
            THEN [argument |-> arg, optionsInput |-> remainingInput, foundArg |-> TRUE]
            ELSE IF index = -1
            THEN ExtractArgumentLoop_emptyWins(remainingInput, command, i + 1, st)
            ELSE IF after # <<>> /\ ~HasPrefix(after, S(" "))
            THEN ExtractArgumentLoop_emptyWins(remainingInput, command, i + 1, st)
            ELSE [argument |-> arg,
                  optionsInput |-> Slice(remainingInput, 0, index) \o S(" ") \o after,
                  foundArg |-> TRUE]

\* the loop without the validation of the input after the label
RECURSIVE ExtractArgumentLoop_noAfterCheck(_, _, _, _)
ExtractArgumentLoop_noAfterCheck(remainingInput, command, i, st) ==
    IF i > Len(command.Arguments) THEN st
    ELSE
        LET arg == command.Arguments[i]
            index == Index(remainingInput, arg.Label)
            after == Slice(remainingInput, index + Len(arg.Label), Len(remainingInput))
        IN  IF arg.Label = <<>>
            THEN ExtractArgumentLoop_noAfterCheck(remainingInput, command, i + 1,
                    [argument |-> arg, optionsInput |-> remainingInput, foundArg |-> TRUE])
            ELSE IF index = -1
            THEN ExtractArgumentLoop_noAfterCheck(remainingInput, command, i + 1, st)
            ELSE [argument |-> arg,
                  optionsInput |-> Slice(remainingInput, 0, index) \o S(" ") \o after,
                  foundArg |-> TRUE]

\* The loop of extractArgument over command.Arguments from index i on; st is
\* [argument, optionsInput, foundArg] as the earlier iterations left them.
RECURSIVE ExtractArgumentLoop(_, _, _, _)
ExtractArgumentLoop(remainingInput, command, i, st) ==
    IF i > Len(command.Arguments) THEN st
    ELSE
        LET arg == command.Arguments[i]
            index == Index(remainingInput, arg.Label)
            after == Slice(remainingInput, index + Len(arg.Label), Len(remainingInput))
        IN  IF arg.Label = <<>>
            THEN ExtractArgumentLoop(remainingInput, command, i + 1,
                    [argument |-> arg, optionsInput |-> remainingInput, foundArg |-> TRUE])
            ELSE IF index = -1
            THEN ExtractArgumentLoop(remainingInput, command, i + 1, st)
            ELSE IF after # <<>> /\ ~HasPrefix(after, S(" "))
            THEN ExtractArgumentLoop(remainingInput, command, i + 1, st)
            ELSE [argument |-> arg,
                  optionsInput |-> Slice(remainingInput, 0, index) \o S(" ") \o after,
                  foundArg |-> TRUE]

\* App.extractArgument: [argument, optionsInput, err]
extractArgument(remainingInput, command) ==
    LET st == ExtractArgumentLoop(remainingInput, command, 1,
                [argument |-> ZeroArgument, optionsInput |-> <<>>, foundArg |-> FALSE])
    IN  IF ~st.foundArg
        THEN [argument |-> st.argument, optionsInput |-> st.optionsInput,
              err |-> S("invalid use of the \"") \o command.Label
                        \o S("\" command, no valid argument provided")]
        ELSE [argument |-> st.argument, optionsInput |-> st.optionsInput, err |-> NoErr]

----------------------------------------------------------------------------
(* The flag resolver.                                                      *)

\* The inner loop of extractFlags: the index of the first Option whose short
\* or long form equals s, or 0.
RECURSIVE MatchOption(_, _, _)
MatchOption(options, k, s) ==
    IF k > Len(options) THEN 0
    ELSE IF options[k].Short # s /\ options[k].Long # s THEN MatchOption(options, k + 1, s)
    ELSE k

\* The initial metadata of extractFlags: every Option unset.
InitialMetadata(argument) ==
    [l \in {argument.Options[k].Label : k \in 1..Len(argument.Options)} |->
        flagMetadata(FALSE, FALSE, <<>>)]

\* One iteration of the token loop of extractFlags, on optionsStrings[i]
\* (1-based). st is [metadata, expectingValue, err]; an err other than NoErr
\* is the early return.
FlagStep(optionsStrings, argument, i, st) ==
    LET s == optionsStrings[i]
        k == MatchOption(argument.Options, 1, s)
        option == argument.Options[k]
        shortVersion == option.Short = s
        va == option.Variable[1]
        index == Index(s, S("="))
    IN  IF s = <<>> THEN st
        ELSE IF ~HasPrefix(s, S("-"))
        THEN IF ~st.expectingValue
             THEN [st EXCEPT !.err = S("invalid text \"") \o s \o S("\" detected")]
             ELSE st
        ELSE IF k = 0 THEN st
        ELSE IF option.Variable = <<>>
        THEN [st EXCEPT !.metadata[option.Label] = flagMetadata(TRUE, FALSE, <<>>)]
        ELSE IF shortVersion
        THEN IF i < Len(optionsStrings)
             THEN [st EXCEPT
                    !.metadata[option.Label] = flagMetadata(TRUE, TRUE, optionsStrings[i + 1]),
                    !.expectingValue = TRUE]
             ELSE IF va.Required
             THEN [st EXCEPT !.err = S("missing variable \"") \o va.Label
                                        \o S("\" for option \"") \o option.Label \o S("\"")]
             ELSE [st EXCEPT
                    !.metadata[option.Label] = flagMetadata(TRUE, TRUE, va.Default),
                    !.expectingValue = TRUE]
        ELSE IF index # -1
        THEN [st EXCEPT
                !.metadata[option.Label] = flagMetadata(TRUE, TRUE, Slice(s, index, Len(s)))]
        ELSE IF va.Required
        THEN [st EXCEPT !.err = S("required option \"") \o option.Label
                                    \o S("\" missing required variable \"")
                                    \o va.Label \o S("\"")]
        ELSE [st EXCEPT !.metadata[option.Label] = flagMetadata(TRUE, TRUE, va.Default)]

\* The state of the token loop of extractFlags after its first n iterations
\* (fewer when one of them returned the error).
RECURSIVE FlagScan(_, _, _)
FlagScan(optionsStrings, argument, n) ==
    IF n = 0
    THEN [metadata |-> InitialMetadata(argument), expectingValue |-> FALSE, err |-> NoErr]
    ELSE LET st == FlagScan(optionsStrings, argument, n - 1)
         IN  IF st.err # NoErr THEN st ELSE FlagStep(optionsStrings, argument, n, st)

\* App.extractFlags: [flags, err]
extractFlags(optionsInput, argument) ==
    LET optionsStrings == Split(optionsInput, S(" "))
        st == FlagScan(optionsStrings, argument, Len(optionsStrings))
    IN  IF st.err # NoErr THEN [flags |-> NoFlags, err |-> st.err]
        ELSE [flags |-> st.metadata, err |-> NoErr]

----------------------------------------------------------------------------
(* The help generator.                                                     *)

\* Argument.friendlyName
friendlyName(arg) == IF arg.Label = <<>> THEN S("(no arguments)") ELSE arg.Label

\* fmt's %-Ns: s padded with spaces on the right to width n
PadRight(s, n) == IF Len(s) >= n THEN s ELSE s \o [i \in 1..(n - Len(s)) |-> " "]

Max(a, b) == IF a >= b THEN a ELSE b

\* The non-empty labels of arguments, in order (first loop of describeArguments)
RECURSIVE NonEmptyLabels(_)
NonEmptyLabels(arguments) ==
    IF arguments = <<>> THEN <<>>
    ELSE IF Head(arguments).Label = <<>> THEN NonEmptyLabels(Tail(arguments))
    ELSE <<Head(arguments).Label>> \o NonEmptyLabels(Tail(arguments))

\* The length of the longest friendly name (second loop of describeArguments)
RECURSIVE LongestLabelLength(_)
LongestLabelLength(arguments) ==
    IF arguments = <<>> THEN 0
    ELSE Max(Len(friendlyName(Head(arguments))), LongestLabelLength(Tail(arguments)))

\* One line per argument (third loop of describeArguments)
RECURSIVE ArgumentLines(_, _)
ArgumentLines(arguments, width) ==
    IF arguments = <<>> THEN <<>>
    ELSE S("\t") \o PadRight(friendlyName(Head(arguments)), width) \o S(" ")
            \o Head(arguments).HelpMsg \o S("\n")
            \o ArgumentLines(Tail(arguments), width)

\* describeArguments
describeArguments(arguments) ==
    LET optional == \E i \in 1..Len(arguments) : arguments[i].Label = <<>>
        joined == Join(NonEmptyLabels(arguments), S("|"))
        desc == IF optional THEN S("[") \o joined \o S("]") ELSE joined
    IN  desc \o S("\n") \o ArgumentLines(arguments, LongestLabelLength(arguments))

\* The first loop of describeOptions over options from index i on; acc is
\* [reqShort, reqLong, optShort, optLong].
RECURSIVE OptionGroups(_, _, _)
OptionGroups(options, i, acc) ==
    IF i > Len(options) THEN acc
    ELSE
        LET option == options[i]
        IN  OptionGroups(options, i + 1,
                IF option.Variable # <<>> /\ option.Variable[1].Required
                THEN IF option.Short # <<>>
                     THEN [acc EXCEPT !.reqShort =
                            @ \o option.Short \o S(" ") \o option.Variable[1].Label \o S(" ")]
                     ELSE [acc EXCEPT !.reqLong =
                            @ \o option.Long \o S("=") \o option.Variable[1].Label \o S(" ")]
                ELSE IF option.Short # <<>>
                     THEN IF acc.optShort = <<>>
                          THEN [acc EXCEPT !.optShort = option.Short]
                          ELSE [acc EXCEPT !.optShort =
                                    @ \o Slice(option.Short, 1, Len(option.Short))]
                     ELSE [acc EXCEPT !.optLong = @ \o option.Long \o S(" ")])

\* The length of the longest long form (second loop of describeOptions)
RECURSIVE LongestLongLength(_)
LongestLongLength(options) ==
    IF options = <<>> THEN 0
    ELSE Max(Len(Head(options).Long), LongestLongLength(Tail(options)))

\* One line per option (third loop of describeOptions)
RECURSIVE OptionLines(_, _)
OptionLines(options, width) ==
    IF options = <<>> THEN <<>>
    ELSE S("\t") \o Head(options).Short \o S(" ") \o PadRight(Head(options).Long, width)
            \o S(" ") \o Head(options).HelpMsg \o S("\n")
            \o OptionLines(Tail(options), width)

\* describeOptions
describeOptions(options) ==
    LET acc == OptionGroups(options, 1,
                [reqShort |-> <<>>, reqLong |-> <<>>, optShort |-> <<>>, optLong |-> <<>>])
        reqShort == TrimRight(acc.reqShort, S(" "))
        reqLong == TrimRight(acc.reqLong, S(" "))
        optShort == TrimRight(acc.optShort, S(" "))
        optLong == TrimRight(acc.optLong, S(" "))
        desc == (IF reqShort # <<>> THEN reqShort \o S(" ") ELSE <<>>)
                \o (IF reqLong # <<>> THEN reqLong \o S(" ") ELSE <<>>)
                \o (IF optShort # <<>> THEN optShort \o S(" ") ELSE <<>>)
                \o (IF optLong # <<>> THEN optLong ELSE <<>>)
    IN  TrimRight(desc, S(" ")) \o S("\n")
            \o OptionLines(options, LongestLongLength(options))

\* Argument.helpArg
ArgumentHelpArg(arg) ==
    friendlyName(arg) \o S(" ") \o describeOptions(arg.Options) \o S("\n")

\* Command.helpArg: the single-Argument help text
CommandHelpArg(cmd, arg) ==
    S("\nUsage: ") \o cmd.Label \o S(" ") \o friendlyName(arg) \o S("\n\n")
        \o cmd.Label \o S(" ") \o ArgumentHelpArg(arg)

\* The loop of Command.helpCmd over its arguments
RECURSIVE CommandHelpLines(_, _)
CommandHelpLines(label, arguments) ==
    IF arguments = <<>> THEN <<>>
    ELSE label \o S(" ") \o ArgumentHelpArg(Head(arguments))
            \o CommandHelpLines(label, Tail(arguments))

\* Command.helpCmd: the single-Command help text
helpCmd(cmd) ==
    S("\nUsage: ") \o cmd.Label \o S("\n\n") \o cmd.Label \o S(" ")
        \o describeArguments(cmd.Arguments) \o S("\n")
        \o CommandHelpLines(cmd.Label, cmd.Arguments)

\* Config.createHelp: the whole-grammar help text
RECURSIVE ConfigHelp(_)
ConfigHelp(commands) ==
    IF commands = <<>> THEN <<>>
    ELSE helpCmd(Head(commands)) \o ConfigHelp(Tail(commands))

----------------------------------------------------------------------------
(* getOutput. Its result is [output, exit, calls]: the bytes returned,     *)
(* whether prepareExit was called, and the handlers invoked with their     *)
(* Flags.                                                                  *)

Result(bytes) == [output |-> bytes, exit |-> FALSE, calls |-> <<>>]

\* fmt.Sprintf("%v\n", err)
ErrorLine(err) == err \o S("\n")

\* getHelpOutput without the branch for a Command alone
getHelpOutput_noCommandHelp(cfg, in) ==
    LET c == extractCommand(cfg, in)
        a == extractArgument(c.remainingInput, c.command)
    IN  IF in = <<>> THEN Result(ConfigHelp(cfg.Commands))
        ELSE IF c.err # NoErr THEN Result(ErrorLine(c.err))
        ELSE IF a.err # NoErr THEN Result(ErrorLine(a.err))
        ELSE Result(CommandHelpArg(c.command, a.argument))

\* App.getHelpOutput
getHelpOutput(cfg, in) ==
    LET c == extractCommand(cfg, in)
        a == extractArgument(c.remainingInput, c.command)
    IN  IF in = <<>> THEN Result(ConfigHelp(cfg.Commands))
        ELSE IF c.err # NoErr THEN Result(ErrorLine(c.err))
        ELSE IF c.remainingInput = <<>> THEN Result(helpCmd(c.command))
        ELSE IF a.err # NoErr THEN Result(ErrorLine(a.err))
        ELSE Result(CommandHelpArg(c.command, a.argument))

\* the help test on the trailing space-delimited token instead of the suffix
IsHelpRequest_lastToken(cfg, in) ==
    Split(in, S(" "))[Len(Split(in, S(" ")))] = cfg.HelpCmd

\* The help test of getOutput
IsHelpRequest(cfg, in) == HasSuffix(in, cfg.HelpCmd)

\* the dispatch with the error of extractFlags dropped
Dispatch_ignoreFlagsErr(cfg, in) ==
    LET c == extractCommand(cfg, in)
        a == extractArgument(c.remainingInput, c.command)
        f == extractFlags(a.optionsInput, a.argument)
    IN  IF c.err # NoErr THEN Result(ErrorLine(c.err))
        ELSE IF a.err # NoErr THEN Result(ErrorLine(a.err))
        ELSE [output |-> CallFunc(a.argument.executable), exit |-> FALSE,
              calls |-> <<[fn |-> a.argument.executable, flags |-> f.flags]>>]

\* The dispatch of getOutput: Command -> Argument -> Flag resolution
Dispatch(cfg, in) ==
    LET c == extractCommand(cfg, in)
        a == extractArgument(c.remainingInput, c.command)
        f == extractFlags(a.optionsInput, a.argument)
    IN  IF c.err # NoErr THEN Result(ErrorLine(c.err))
        ELSE IF a.err # NoErr THEN Result(ErrorLine(a.err))
        ELSE IF f.err # NoErr THEN Result(ErrorLine(f.err))
        ELSE [output |-> CallFunc(a.argument.executable), exit |-> FALSE,
              calls |-> <<[fn |-> a.argument.executable, flags |-> f.flags]>>]

\* App.getOutput
getOutput(cfg, line) ==
    LET in == Trim(line, whitespaceCharacters)
    IN  IF in = <<>> THEN Result(<<>>)
        ELSE IF in = cfg.ExitCmd
        THEN [output |-> CallFunc(cfg.exit), exit |-> TRUE,
              calls |-> <<[fn |-> cfg.exit, flags |-> NoFlags]>>]
        ELSE IF IsHelpRequest(cfg, in)
        THEN getHelpOutput(cfg,
                TrimRight(Slice(in, 0, Len(in) - Len(cfg.HelpCmd)), whitespaceCharacters))
        ELSE Dispatch(cfg, in)

\* prepareExit leaving app.active as it is
prepareExit_noop(a) == a

\* App.prepareExit: the new value of app.active
prepareExit(a) == FALSE

----------------------------------------------------------------------------
(* Binding the handlers: Using and withProgram.                            *)

\* The methods of the README's sample program with the type func(Flags) []byte
ProgramMethods == {S("Setup"), S("Leave"), S("MyFunc"), S("MyFunc2")}

\* getExecutable: [action, err]; a missing method leaves action nil
getExecutable(funcName) ==
    IF funcName \in ProgramMethods
    THEN [action |-> [kind |-> "method", name |-> funcName], err |-> NoErr]
    ELSE [action |-> NilFunc,
          err |-> S("unable to find method \"") \o funcName
                    \o S("\" for type \"*main.Program\"")]

\* The argument loop of withProgram, from Argument j of Command i on:
\* [config, err]
RECURSIVE withProgramArguments(_, _, _)
withProgramArguments(cfg, i, j) ==
    IF i > Len(cfg.Commands) THEN [config |-> cfg, err |-> NoErr]
    ELSE IF j > Len(cfg.Commands[i].Arguments) THEN withProgramArguments(cfg, i + 1, 1)
    ELSE IF cfg.Commands[i].Arguments[j].ExecFunc = <<>>
    THEN withProgramArguments(cfg, i, j + 1)
    ELSE
        LET e == getExecutable(cfg.Commands[i].Arguments[j].ExecFunc)
            bound == [cfg EXCEPT !.Commands[i].Arguments[j].executable = e.action]
        IN  IF e.err # NoErr THEN [config |-> bound, err |-> e.err]
            ELSE withProgramArguments(bound, i, j + 1)

\* Config.withProgram: [config, err]
withProgram(cfg) ==
    LET i == getExecutable(cfg.InitFunc)
        c1 == [cfg EXCEPT !.init = i.action]
        x == getExecutable(cfg.ExitFunc)
        c2 == [c1 EXCEPT !.exit = x.action]
    IN  IF i.err # NoErr THEN [config |-> c1, err |-> i.err]
        ELSE IF x.err # NoErr THEN [config |-> c2, err |-> x.err]
        ELSE withProgramArguments(c2, 1, 1)

----------------------------------------------------------------------------
(* The grammars the model is run on.                                       *)

\* show "": -r/--read-only without a Variable, -d/--description with an
\* optional one
ArgShowNone ==
    Argument("",
        <<Option("readOnly", "-r", "--read-only", <<>>, "Short desc"),
          Option("desc", "-d", "--description", <<Variable("var5", FALSE, "das")>>,
                 "Long desc")>>,
        "MyFunc", "Show will show the stuff you want")

\* show daily-tasks: -r/--read-only with a required Variable
ArgShowDaily ==
    Argument("daily-tasks",
        <<Option("readOnly", "-r", "--read-only", <<Variable("var4", TRUE, "das")>>,
                 "Short desc")>>,
        "MyFunc2", "Show will show the other stuff you want")

\* list all: a Command without an empty-label Argument
ArgListAll ==
    Argument("all", <<Option("verbose", "-v", "", <<>>, "Be verbose")>>, "ListAll",
             "List everything")

\* the grammar of the README and of the specification's examples
SampleConfig ==
    Config(">>> ", <<Command("show", <<ArgShowNone, ArgShowDaily>>)>>,
           "Setup", "Leave", "leave", "help")

\* the same with the Arguments in the other order and a second Command whose
\* handler the sample program lacks
ReversedConfig ==
    Config("> ", <<Command("show", <<ArgShowDaily, ArgShowNone>>),
                   Command("list", <<ArgListAll>>)>>,
           "Setup", "Leave", "leave", "help")

\* two Commands labelled show
TwoShowConfig ==
    Config("> ", <<Command("show", <<ArgShowDaily>>), Command("show", <<ArgShowNone>>)>>,
           "Setup", "Leave", "leave", "help")

\* a Command with two non-empty labels, the first a prefix of the second
PrefixConfig ==
    Config("> ", <<Command("task", <<Argument("daily", <<>>, "MyFunc", "Today"),
                                     Argument("daily-tasks", <<>>, "MyFunc2", "Tasks")>>)>>,
           "Setup", "Leave", "leave", "help")

\* malformed grammars
BadConfigs ==
    { Config("> ", <<Command("show", <<ArgShowNone, ArgShowNone>>)>>,
             "Setup", "Leave", "leave", "help"),
      Config("> ", <<Command("leave", <<ArgShowNone>>)>>, "Setup", "Leave", "leave", "help"),
      Config("> ", <<Command("help", <<ArgShowNone>>)>>, "Setup", "Leave", "leave", "help"),
      Config("> ", <<Command("show", <<ArgShowNone>>)>>, "Setup", "Leave", "", "help"),
      Config("> ", <<Command("show", <<ArgShowNone>>)>>, "Setup", "Leave", "leave", ""),
      Config("> ", <<>>, "Setup", "Leave", "leave", "help"),
      Config("> ", <<Command("show", <<>>)>>, "Setup", "Leave", "leave", "help"),
      Config("> ", <<Command("sh ow", <<ArgShowNone>>)>>, "Setup", "Leave", "leave", "help"),
      Config("> ",
             <<Command("show", <<Argument("",
                 <<Option("name", "-n", "--name=x", <<Variable("v", FALSE, "")>>, "")>>,
                 "MyFunc", "")>>)>>,
             "Setup", "Leave", "leave", "help"),
      Config("> ",
             <<Command("show", <<Argument("",
                 <<Option("a", "-a", "", <<>>, ""), Option("b", "-a", "", <<>>, "")>>,
                 "MyFunc", "")>>)>>,
             "Setup", "Leave", "leave", "help") }

\* the unmarshalled configurations LoadConfig is given
RawConfigs == {SampleConfig, ReversedConfig, TwoShowConfig} \cup BadConfigs

\* the configurations LoadConfig returns without an error
LoadedConfigs == {LoadConfig(raw).config : raw \in {r \in RawConfigs : LoadConfig(r).err = NoErr}}

----------------------------------------------------------------------------
(* The inputs the model is run on.                                         *)

\* the non-empty sequences over T of length at most n
SeqsUpTo(T, n) == UNION {[1..k -> T] : k \in 1..n}

FlagTokens ==
    {S(""), S("-r"), S("-d"), S("-x"), S("--read-only"), S("--read-only=x"),
     S("--description=x"), S("extra")}

\* the options texts given to extractFlags
OptionsInputs == {Join(ts, S(" ")) : ts \in SeqsUpTo(FlagTokens, MaxTokens)}

\* the Arguments of the loaded grammars
LoadedArguments ==
    UNION {UNION {{cfg.Commands[i].Arguments[j] : j \in 1..Len(cfg.Commands[i].Arguments)}
                    : i \in 1..Len(cfg.Commands)} : cfg \in LoadedConfigs}

LineWords ==
    {S("show"), S("list"), S("daily-tasks"), S("-r"), S("extra"), S("help"), S("xhelp"),
     S("leave"), S("unknown")}

\* the lines given to getOutput, as ReadString('\n') returns them
Lines == {Join(ws, S(" ")) \o S("\n") : ws \in SeqsUpTo(LineWords, MaxWords)}

CommandWords == {S("show"), S("list"), S("unknown"), S(""), S("\t-r")}

\* the inputs given to extractCommand
CommandInputs == {Join(ws, S(" ")) : ws \in SeqsUpTo(CommandWords, MaxWords)}

RemainderWords ==
    {S(""), S("daily-tasks"), S("daily"), S("all"), S("xdaily-tasks"), S("daily-tasksx"),
     S("allx"), S("-r")}

\* the remainders extractCommand hands to extractArgument: no whitespace at
\* either end, since the line was trimmed and the remainder left-trimmed
Remainders ==
    {<<>>} \cup {r \in {Join(ws, S(" ")) : ws \in SeqsUpTo(RemainderWords, MaxWords)} :
                    Trim(r, whitespaceCharacters) = r}

\* the Commands given to extractArgument
ArgumentCommands ==
    UNION {{cfg.Commands[i] : i \in 1..Len(cfg.Commands)}
            : cfg \in LoadedConfigs \cup {LoadConfig(PrefixConfig).config}}

\* Options that are valid one by one and share a label, a short or a long
ValidateOptions ==
    {Option("a", "-a", "--aa", <<>>, ""), Option("a", "-b", "--bb", <<>>, ""),
     Option("c", "-a", "", <<>>, ""), Option("d", "", "--aa", <<>>, ""),
     Option("e", "-e", "", <<>>, "")}

\* the Arguments given to Argument.validate
ValidateArguments ==
    {Argument("x", opts, "MyFunc", "") : opts \in SeqsUpTo(ValidateOptions, MaxItems)}

\* the Commands given to Command.validate
ValidateCommands ==
    {Command("show", args) :
        args \in SeqsUpTo({ArgShowNone, ArgShowDaily, ArgListAll,
                           Argument("daily-tasks", <<>>, "MyFunc", "")}, MaxItems)}

\* the lines typed at the prompt of the read loop
TypedLines ==
    {S("show -r\n"), S("show daily-tasks -r extra\n"), S("show daily-tasks -r\n"),
     S("show help\n"), S("unknown\n"), S("list\n"), S("show extra\n"), S("\n"),
     S("  leave \n")}

----------------------------------------------------------------------------
(* The read loop of App.Run.                                               *)

\* App.Using, before Run: the handlers are bound. When withProgram returns
\* an error the caller (the README's main) stops with log.Fatal.
Using ==
    /\ main = "new"
    /\ config' = withProgram(config).config
    /\ main' = IF withProgram(config).err = NoErr THEN "used" ELSE "usingFailed"
    /\ UNCHANGED <<pc, active, sigint, input, output, written, calls, exitCalls,
                   prompts, linesRead>>

\* Run up to its receive: config.init is called and its output written, the
\* read loop goroutine is started, the interrupt is routed to app.sigint.
RunInit ==
    /\ main \in {"new", "used"}
    /\ calls' = <<[fn |-> config.init, flags |-> NoFlags]>>
    /\ written' = CallFunc(config.init)
    /\ main' = "waiting"
    /\ pc' = "check"
    /\ UNCHANGED <<config, active, sigint, input, output, exitCalls, prompts, linesRead>>

\* for app.active
LoopCheck ==
    /\ pc = "check"
    /\ pc' = IF active THEN "prompt" ELSE "send"
    /\ UNCHANGED <<config, main, active, sigint, input, output, written, calls,
                   exitCalls, prompts, linesRead>>

\* app.write(app.config.Prompt)
WritePrompt ==
    /\ pc = "prompt"
    /\ written' = config.Prompt
    /\ prompts' = prompts + 1
    /\ pc' = "read"
    /\ UNCHANGED <<config, main, active, sigint, input, output, calls, exitCalls,
                   linesRead>>

\* app.read()
ReadLine ==
    /\ pc = "read"
    /\ linesRead < MaxLines
    /\ \E line \in TypedLines : input' = line
    /\ linesRead' = linesRead + 1
    /\ pc' = "getOutput"
    /\ UNCHANGED <<config, main, active, sigint, output, written, calls, exitCalls,
                   prompts>>

\* output := app.getOutput(input)
GetOutput ==
    /\ pc = "getOutput"
    /\ LET r == getOutput(config, input)
       IN  /\ output' = r.output
           /\ calls' = r.calls
           /\ active' = IF r.exit THEN prepareExit(active) ELSE active
           /\ exitCalls' = IF r.exit THEN exitCalls + 1 ELSE exitCalls
    /\ pc' = "write"
    /\ UNCHANGED <<config, main, sigint, input, written, prompts, linesRead>>

\* app.write(output)
WriteOutput ==
    /\ pc = "write"
    /\ main # "pure"
    /\ written' = output
    /\ pc' = "check"
    /\ UNCHANGED <<config, main, active, sigint, input, output, calls, exitCalls,
                   prompts, linesRead>>

\* app.sigint <- os.Kill, when the loop has ended
SendKill ==
    /\ pc = "send"
    /\ Len(sigint) < 1
    /\ sigint' = Append(sigint, "kill")
    /\ pc' = "done"
    /\ UNCHANGED <<config, main, active, input, output, written, calls, exitCalls,
                   prompts, linesRead>>

\* ctl-C: signal.Notify's channel receives os.Interrupt (dropped when full)
Interrupt ==
    /\ main = "waiting"
    /\ Len(sigint) < 1
    /\ sigint' = Append(sigint, "interrupt")
    /\ UNCHANGED <<config, pc, main, active, input, output, written, calls, exitCalls,
                   prompts, linesRead>>

\* <-app.sigint: Run returns
RunReturn ==
    /\ main = "waiting"
    /\ sigint # <<>>
    /\ sigint' = Tail(sigint)
    /\ main' = "returned"
    /\ UNCHANGED <<config, pc, active, input, output, written, calls, exitCalls,
                   prompts, linesRead>>

\* log.Fatal: a write or a read of the loop returned an error
Fatal ==
    /\ pc \in {"prompt", "read", "write"}
    /\ main \in {"waiting", "returned"}
    /\ pc' = "fatal"
    /\ main' = "fatal"
    /\ UNCHANGED <<config, active, sigint, input, output, written, calls, exitCalls,
                   prompts, linesRead>>

\* New(config) on a configuration LoadConfig returned
Init ==
    /\ config \in LoadedConfigs
    /\ pc = "new"
    /\ main = "new"
    /\ active = TRUE
    /\ sigint = <<>>
    /\ input = <<>>
    /\ output = <<>>
    /\ written = <<>>
    /\ calls = <<>>
    /\ exitCalls = 0
    /\ prompts = 0
    /\ linesRead = 0

Loop == LoopCheck \/ WritePrompt \/ GetOutput \/ WriteOutput \/ SendKill

Next == Using \/ RunInit \/ Loop \/ ReadLine \/ Interrupt \/ RunReturn \/ Fatal

Spec == Init /\ [][Next]_vars

\* The scheduler runs both goroutines, and a line is typed whenever one is
\* awaited. The liveness checked starts where getOutput has returned, so no
\* fairness of GetOutput is assumed.
LiveSpec ==
    /\ Spec
    /\ WF_vars(LoopCheck) /\ WF_vars(WritePrompt) /\ WF_vars(ReadLine)
    /\ WF_vars(WriteOutput) /\ WF_vars(SendKill) /\ WF_vars(RunReturn)

----------------------------------------------------------------------------
(* The pure functions, each applied once to an input of the sets above.    *)

CallLoadConfig ==
    /\ pc = "LoadConfig"
    /\ output' = LoadConfig(config)
    /\ pc' = "LoadConfig.returned"
    /\ UNCHANGED <<config, main, active, sigint, input, written, calls, exitCalls,
                   prompts, linesRead>>

CallExtractCommand ==
    /\ pc = "extractCommand"
    /\ output' = extractCommand(config, input)
    /\ pc' = "extractCommand.returned"
    /\ UNCHANGED <<config, main, active, sigint, input, written, calls, exitCalls,
                   prompts, linesRead>>

CallExtractFlags ==
    /\ pc = "extractFlags"
    /\ output' = extractFlags(input.optionsInput, input.argument)
    /\ pc' = "extractFlags.returned"
    /\ UNCHANGED <<config, main, active, sigint, input, written, calls, exitCalls,
                   prompts, linesRead>>

CallExtractArgument ==
    /\ pc = "extractArgument"
    /\ output' = extractArgument(input.remainingInput, input.command)
    /\ pc' = "extractArgument.returned"
    /\ UNCHANGED <<config, main, active, sigint, input, written, calls, exitCalls,
                   prompts, linesRead>>

CallCommandValidate ==
    /\ pc = "Command.validate"
    /\ output' = CommandValidate(input)
    /\ pc' = "Command.validate.returned"
    /\ UNCHANGED <<config, main, active, sigint, input, written, calls, exitCalls,
                   prompts, linesRead>>

CallArgumentValidate ==
    /\ pc = "Argument.validate"
    /\ output' = ArgumentValidate(input)
    /\ pc' = "Argument.validate.returned"
    /\ UNCHANGED <<config, main, active, sigint, input, written, calls, exitCalls,
                   prompts, linesRead>>

PureInit ==
    /\ main = "pure"
    /\ active = TRUE
    /\ sigint = <<>>
    /\ output = <<>>
    /\ written = <<>>
    /\ calls = <<>>
    /\ exitCalls = 0
    /\ prompts = 0
    /\ linesRead = 0
    /\ \/ pc = "LoadConfig" /\ config \in RawConfigs /\ input = <<>>
       \/ pc = "extractCommand" /\ config \in LoadedConfigs /\ input \in CommandInputs
       \/ /\ pc = "extractFlags"
          /\ config = LoadConfig(SampleConfig).config
          /\ input \in [optionsInput : OptionsInputs, argument : LoadedArguments]
       \/ pc = "getOutput" /\ config \in LoadedConfigs /\ input \in Lines
       \/ /\ pc = "extractArgument"
          /\ config = LoadConfig(SampleConfig).config
          /\ input \in [remainingInput : Remainders, command : ArgumentCommands]
       \/ /\ pc = "Command.validate"
          /\ config = LoadConfig(SampleConfig).config
          /\ input \in ValidateCommands
       \/ /\ pc = "Argument.validate"
          /\ config = LoadConfig(SampleConfig).config
          /\ input \in ValidateArguments

PureNext ==
    \/ CallLoadConfig \/ CallExtractCommand \/ CallExtractFlags \/ GetOutput
    \/ CallExtractArgument \/ CallCommandValidate \/ CallArgumentValidate

PureSpec == PureInit /\ [][PureNext]_vars

----------------------------------------------------------------------------
(* Notions the claims are stated with.                                     *)

\* the tokens of the options text of an extractFlags call
TokensOf(in) == Split(in.optionsInput, S(" "))

\* extractFlags reaches token i: no earlier token made it return
Reaches(toks, argument, i) == FlagScan(toks, argument, i - 1).err = NoErr

\* token t is not empty and does not start with a dash
IsBare(t) == t # <<>> /\ ~HasPrefix(t, S("-"))

\* t is the short form of an Option of argument that has a Variable
IsShortWithVariable(argument, t) ==
    \E k \in 1..Len(argument.Options) :
        argument.Options[k].Short = t /\ argument.Options[k].Variable # <<>>

\* the trimmed line of a getOutput call
Trimmed(line) == Trim(line, whitespaceCharacters)

\* the trailing space-delimited token of a trimmed line
LastToken(in) == Split(in, S(" "))[Len(Split(in, S(" ")))]

\* every text the help generator renders for a grammar
HelpTexts(cfg) ==
    {ConfigHelp(cfg.Commands)}
        \cup {helpCmd(cfg.Commands[i]) : i \in 1..Len(cfg.Commands)}
        \cup UNION {{CommandHelpArg(cfg.Commands[i], cfg.Commands[i].Arguments[j])
                        : j \in 1..Len(cfg.Commands[i].Arguments)}
                    : i \in 1..Len(cfg.Commands)}

\* the first Command of the grammar with the given label
FirstCommand(cfg, label) ==
    cfg.Commands[CHOOSE i \in 1..Len(cfg.Commands) :
                    /\ cfg.Commands[i].Label = label
                    /\ \A j \in 1..(i - 1) : cfg.Commands[j].Label # label]

----------------------------------------------------------------------------
(* C1: when the last token extractFlags scans is <long>=<text>, <long> the *)
(* long form of an Option with a Variable, the resolved flags of that      *)
(* Option are {isset, hasVar, the token from "=" on}.                      *)
C1_LongFormValue ==
    pc = "extractFlags.returned" =>
        LET toks == TokensOf(input)
            last == toks[Len(toks)]
        IN  \A k \in 1..Len(input.argument.Options) :
                LET option == input.argument.Options[k]
                IN  (/\ option.Variable # <<>>
                     /\ option.Long # <<>>
                     /\ HasPrefix(last, option.Long \o S("="))
                     /\ Reaches(toks, input.argument, Len(toks)))
                    => /\ output.err = NoErr
                       /\ output.flags[option.Label]
                            = flagMetadata(TRUE, TRUE, Slice(last, Len(option.Long), Len(last)))

(* C2: a bare token that extractFlags reaches is accepted only directly    *)
(* after the short form of an Option with a Variable; any other bare token *)
(* makes extractFlags return the "invalid text" error.                     *)
C2_BareTokenRejected ==
    pc = "extractFlags.returned" =>
        LET toks == TokensOf(input)
        IN  \A i \in 1..Len(toks) :
                (/\ IsBare(toks[i])
                 /\ Reaches(toks, input.argument, i)
                 /\ ~(i > 1 /\ IsShortWithVariable(input.argument, toks[i - 1])))
                => output.err = S("invalid text \"") \o toks[i] \o S("\" detected")

(* C3: when a line resolves to an Argument and the scan of its options     *)
(* text matches, by its short form, an Option with a required Variable     *)
(* that no non-empty token follows, getOutput returns the missing-variable *)
(* error and invokes no handler.                                           *)
C3_MissingVariable ==
    (pc = "write" /\ Trimmed(input) # <<>> /\ Trimmed(input) # config.ExitCmd
        /\ ~HasSuffix(Trimmed(input), config.HelpCmd)) =>
        LET c == extractCommand(config, Trimmed(input))
            a == extractArgument(c.remainingInput, c.command)
            toks == Split(a.optionsInput, S(" "))
        IN  (c.err = NoErr /\ a.err = NoErr) =>
                \A i \in 1..Len(toks) : \A k \in 1..Len(a.argument.Options) :
                    LET option == a.argument.Options[k]
                    IN  (/\ Reaches(toks, a.argument, i)
                         /\ option.Short = toks[i]
                         /\ option.Variable # <<>>
                         /\ option.Variable[1].Required
                         /\ \A j \in (i + 1)..Len(toks) : toks[j] = <<>>)
                        => /\ output = ErrorLine(S("missing variable \"")
                                    \o option.Variable[1].Label \o S("\" for option \"")
                                    \o option.Label \o S("\""))
                           /\ calls = <<>>

\* the line is <label> <helpCmd> for a Command of the grammar that has an
\* empty-label Argument; i and j index that Command and that Argument
IsCommandHelpLine(i, j) ==
    /\ pc = "write"
    /\ config.Commands[i].Arguments[j].Label = <<>>
    /\ Trimmed(input) = config.Commands[i].Label \o S(" ") \o config.HelpCmd
    /\ Trimmed(input) # config.ExitCmd

(* C4, as stated: <label> <helpCmd> returns the single-Argument help text  *)
(* of the Command's empty-label Argument.                                  *)
C4_ArgumentHelp ==
    \A i \in 1..Len(config.Commands) : \A j \in 1..Len(config.Commands[i].Arguments) :
        IsCommandHelpLine(i, j) =>
            output = CommandHelpArg(config.Commands[i], config.Commands[i].Arguments[j])

(* C4, amended: <label> <helpCmd> returns the single-Command help text of  *)
(* the first Command with that label, and invokes no handler.              *)
C4_CommandHelp ==
    \A i \in 1..Len(config.Commands) : \A j \in 1..Len(config.Commands[i].Arguments) :
        IsCommandHelpLine(i, j) =>
            /\ output = helpCmd(FirstCommand(config, config.Commands[i].Label))
            /\ calls = <<>>

C4_Witness ==
    /\ IsCommandHelpLine(1, 1)
    /\ Len(config.Commands[1].Arguments) = 2
    /\ output = helpCmd(config.Commands[1])

\* the errors getHelpOutput can answer with for the line without its helpCmd
HelpRouteErrors(cfg, in) ==
    LET stripped == TrimRight(SubSeq(in, 1, Len(in) - Len(cfg.HelpCmd)), whitespaceCharacters)
        c == extractCommand(cfg, stripped)
    IN  {ErrorLine(c.err), ErrorLine(extractArgument(c.remainingInput, c.command).err)}

\* the errors the three resolvers can answer a line with
ResolverErrors(cfg, in) ==
    LET c == extractCommand(cfg, in)
        a == extractArgument(c.remainingInput, c.command)
    IN  IF c.err # NoErr THEN {ErrorLine(c.err)}
        ELSE IF a.err # NoErr THEN {ErrorLine(a.err)}
        ELSE {ErrorLine(extractFlags(a.optionsInput, a.argument).err)} \ {ErrorLine(NoErr)}

\* a line getOutput neither ignores nor takes for the exit command
IsOrdinaryLine == pc = "write" /\ Trimmed(input) # <<>> /\ Trimmed(input) # config.ExitCmd

(* C5, as stated: a line is answered by the help generator exactly when    *)
(* its trailing space-delimited token equals helpCmd.                      *)
C5_HelpIffLastToken ==
    IsOrdinaryLine =>
        IF LastToken(Trimmed(input)) = config.HelpCmd
        THEN calls = <<>> /\ output \in HelpTexts(config) \cup HelpRouteErrors(config, Trimmed(input))
        ELSE output \notin HelpTexts(config)

(* C5, amended: a line is routed to help exactly when it ends with helpCmd *)
(* as a string suffix; every other line goes through the resolvers: it is  *)
(* answered with a resolver's error or by the handler invoked, never with  *)
(* help text.                                                              *)
C5_HelpIffSuffix ==
    IsOrdinaryLine =>
        IF HasSuffix(Trimmed(input), config.HelpCmd)
        THEN calls = <<>> /\ output \in HelpTexts(config) \cup HelpRouteErrors(config, Trimmed(input))
        ELSE /\ output \notin HelpTexts(config)
             /\ \/ calls = <<>> /\ output \in ResolverErrors(config, Trimmed(input))
                \/ Len(calls) = 1 /\ output = CallFunc(calls[1].fn)
                    /\ ResolverErrors(config, Trimmed(input)) = {}

C5_Witness ==
    /\ IsOrdinaryLine
    /\ Trimmed(input) = S("show xhelp")
    /\ LastToken(Trimmed(input)) # config.HelpCmd
    /\ output = CommandHelpArg(config.Commands[1], config.Commands[1].Arguments[1])
    /\ config.Commands[1].Arguments[1].Label = <<>>

(* C6: every grammar LoadConfig accepts has pairwise distinct Command      *)
(* labels.                                                                 *)
C6_DistinctCommandLabels ==
    (pc = "LoadConfig.returned" /\ output.err = NoErr) =>
        \A i, j \in 1..Len(config.Commands) :
            config.Commands[i].Label = config.Commands[j].Label => i = j

(* C7: whenever Run has returned, config.exit has been executed and its    *)
(* output is the last output written.                                      *)
C7_ExitFuncOnReturn ==
    main = "returned" => exitCalls >= 1 /\ written = CallFunc(config.exit)

\* the line read is the exit command, and getOutput has handled it
ExitHandled ==
    pc \in {"write", "check", "send", "done"} /\ Trimmed(input) = config.ExitCmd

\* the process was ended by log.Fatal on a failed read or write
Fataled == main = "fatal"

(* C8: once the exit command has been read, config.exit is invoked exactly *)
(* once and its output is written; from then on no prompt is written and   *)
(* no line is read or dispatched; the loop ends and Run returns (unless a  *)
(* failed write ends the process first).                                   *)
C8_ExitStopsLoop ==
    /\ [](ExitHandled =>
            /\ exitCalls = 1
            /\ ~active
            /\ calls = <<[fn |-> config.exit, flags |-> NoFlags]>>
            /\ output = CallFunc(config.exit)
            /\ (pc # "write" => written = output))
    /\ [][ExitHandled =>
            /\ prompts' = prompts /\ linesRead' = linesRead /\ exitCalls' = exitCalls
            /\ input' = input /\ calls' = calls
            /\ pc' \in {"write", "check", "send", "done", "fatal"}]_vars
    /\ (ExitHandled ~> ((pc = "done" /\ main = "returned") \/ Fataled))

C8_Witness ==
    /\ ExitHandled
    /\ pc = "done"
    /\ main = "returned"
    /\ sigint = <<>>
    /\ written = S("Leaving\n")
    /\ exitCalls = 1

\* the parse-time error of a line that goes through the resolvers, or {}
ParseErrors(cfg, line) ==
    IF Trimmed(line) = <<>> \/ Trimmed(line) = cfg.ExitCmd
        \/ HasSuffix(Trimmed(line), cfg.HelpCmd)
    THEN {}
    ELSE ResolverErrors(cfg, Trimmed(line))

\* getOutput has answered the line read with a parse-time error
ParseFailed == pc = "write" /\ main # "pure" /\ ParseErrors(config, input) # {}

(* C9: a parse-time error does not stop the loop: getOutput returns the    *)
(* error message without invoking a handler, app.active stays true, the    *)
(* message is written, and the next prompt is written and the next line    *)
(* processed (unless a failed read or write ends the process).             *)
C9_ParseErrorContinues ==
    /\ [](ParseFailed =>
            /\ output \in ParseErrors(config, input)
            /\ calls = <<>>
            /\ active
            /\ exitCalls = 0)
    /\ [][ParseFailed => (pc' \in {"write", "check", "fatal"} /\ active')]_vars
    /\ \A n \in 1..(MaxLines - 1) :
        (ParseFailed /\ linesRead = n)
            ~> ((pc = "getOutput" /\ linesRead = n + 1 /\ prompts = n + 1
                    /\ written = config.Prompt)
                \/ Fataled)

\* the first line was answered with a parse-time error (output and calls
\* still hold its result), and the loop has prompted for and read the second
C9_Witness ==
    /\ pc = "getOutput"
    /\ linesRead = 2
    /\ prompts = 2
    /\ written = config.Prompt
    /\ output = S("unable to find command \"unknown\"\n")
    /\ calls = <<>>
    /\ input = S("show -r\n")
    /\ active

\* the 1-based position of the first space of in, or 0
FirstSpace(in) ==
    IF \E i \in 1..Len(in) : in[i] = " "
    THEN CHOOSE i \in 1..Len(in) : in[i] = " " /\ \A j \in 1..(i - 1) : in[j] # " "
    ELSE 0

\* r is rest without its leading whitespace
IsLeftTrimOf(r, rest) ==
    \E k \in 0..Len(rest) :
        /\ r = SubSeq(rest, k + 1, Len(rest))
        /\ \A j \in 1..k : rest[j] \in Chars(whitespaceCharacters)
        /\ (r = <<>> \/ r[1] \notin Chars(whitespaceCharacters))

(* C10: extractCommand takes the text before the first space (the whole    *)
(* input without one) as the candidate label and the text after it, left-  *)
(* trimmed, as the remainder; it returns a configured Command labelled     *)
(* exactly so, or else the error unable to find command "<candidate>".     *)
C10_ExtractCommand ==
    pc = "extractCommand.returned" =>
        LET p == FirstSpace(input)
            candidate == IF p = 0 THEN input ELSE SubSeq(input, 1, p - 1)
            rest == IF p = 0 THEN <<>> ELSE SubSeq(input, p + 1, Len(input))
        IN  /\ IsLeftTrimOf(output.remainingInput, rest)
            /\ IF \E i \in 1..Len(config.Commands) : config.Commands[i].Label = candidate
               THEN /\ output.err = NoErr
                    /\ output.command.Label = candidate
                    /\ \E i \in 1..Len(config.Commands) : config.Commands[i] = output.command
               ELSE output.err = S("unable to find command \"") \o candidate \o S("\"")

C10_Witness ==
    /\ pc = "extractCommand.returned"
    /\ input = S("show  \t-r")
    /\ output.err = NoErr
    /\ output.command.Label = S("show")
    /\ output.remainingInput = S("-r")

C10_WitnessNotFound ==
    /\ pc = "extractCommand.returned"
    /\ input = S("unknown")
    /\ output.err = S("unable to find command \"unknown\"")

----------------------------------------------------------------------------
(* The argument resolver's claims.                                         *)

\* label occurs in rem at the 0-based index k
Occurs(rem, label, k) ==
    k + Len(label) <= Len(rem) /\ SubSeq(rem, k + 1, k + Len(label)) = label

\* what follows the occurrence at k is nothing or a space
FollowedByBoundary(rem, label, k) ==
    k + Len(label) = Len(rem) \/ rem[k + Len(label) + 1] = " "

\* what precedes the occurrence at k is nothing or a space
PrecededByBoundary(rem, k) == k = 0 \/ rem[k] = " "

\* rem with the occurrence of label at k replaced by one space
Excised(rem, label, k) ==
    SubSeq(rem, 1, k) \o S(" ") \o SubSeq(rem, k + Len(label) + 1, Len(rem))

\* the substring search finds the non-empty label, and its match is followed
\* by nothing or a space
Accepted(rem, label) ==
    /\ label # <<>>
    /\ Index(rem, label) # -1
    /\ FollowedByBoundary(rem, label, Index(rem, label))

\* label is one of the space-delimited tokens of rem
IsToken(rem, label) ==
    \E i \in 1..Len(Split(rem, S(" "))) : Split(rem, S(" "))[i] = label

\* label has, somewhere in rem, an occurrence followed by nothing or a space
AcceptableSomewhere(rem, label) ==
    \E k \in 0..Len(rem) : Occurs(rem, label, k) /\ FollowedByBoundary(rem, label, k)

ExtractArgumentReturned == pc = "extractArgument.returned"

(* C11: when some non-empty label of the Command is accepted, the Argument *)
(* selected has an accepted non-empty label, wherever the empty-label      *)
(* Argument stands in the order; otherwise the empty-label Argument is     *)
(* selected with the whole remainder as options text; NotFound is returned *)
(* only when no label is accepted and there is no empty-label Argument.    *)
C11_NonEmptyPreferred ==
    ExtractArgumentReturned =>
        LET rem == input.remainingInput
            args == input.command.Arguments
        IN  IF \E j \in 1..Len(args) : Accepted(rem, args[j].Label)
            THEN /\ output.err = NoErr
                 /\ Accepted(rem, output.argument.Label)
                 /\ \E j \in 1..Len(args) : args[j] = output.argument
            ELSE IF \E j \in 1..Len(args) : args[j].Label = <<>>
            THEN /\ output.err = NoErr
                 /\ output.argument.Label = <<>>
                 /\ \E j \in 1..Len(args) : args[j] = output.argument
                 /\ output.optionsInput = rem
            ELSE output.err = S("invalid use of the \"") \o input.command.Label
                                \o S("\" command, no valid argument provided")

\* the empty-label Argument stands first, and the later daily-tasks is selected
C11_Witness ==
    /\ ExtractArgumentReturned
    /\ input.remainingInput = S("-r daily-tasks")
    /\ input.command.Arguments[1].Label = <<>>
    /\ output.err = NoErr
    /\ output.argument.Label = S("daily-tasks")
    /\ output.optionsInput = S("-r  ")

\* no label is accepted and there is no empty-label Argument
C11_WitnessNotFound ==
    /\ ExtractArgumentReturned
    /\ input.remainingInput = S("allx")
    /\ input.command.Label = S("list")
    /\ output.err # NoErr

(* C12: a non-empty label is selected only at an occurrence in the         *)
(* remainder that is followed by nothing or by a space, and the options    *)
(* text is the remainder with that occurrence replaced by one space.       *)
C12_AcceptedOccurrence ==
    (ExtractArgumentReturned /\ output.err = NoErr /\ output.argument.Label # <<>>) =>
        LET rem == input.remainingInput
            label == output.argument.Label
        IN  \E k \in 0..Len(rem) :
                /\ Occurs(rem, label, k)
                /\ FollowedByBoundary(rem, label, k)
                /\ output.optionsInput = Excised(rem, label, k)

\* daily is a proper prefix of the token daily-tasks and is not selected for it
C12_Witness ==
    /\ ExtractArgumentReturned
    /\ input.command.Label = S("task")
    /\ input.remainingInput = S("daily-tasks -r")
    /\ output.err = NoErr
    /\ output.argument.Label = S("daily-tasks")
    /\ output.optionsInput = S("  -r")

(* C15: a configured non-empty label that is a complete space-delimited    *)
(* token of the remainder is selected when no Argument configured before   *)
(* it is accepted (an empty-label Argument before it is only tentative),   *)
(* also when the label's text occurs earlier inside a longer token.        *)
C15_WholeTokenSelected ==
    ExtractArgumentReturned =>
        LET rem == input.remainingInput
            args == input.command.Arguments
        IN  \A j \in 1..Len(args) :
                (/\ args[j].Label # <<>>
                 /\ IsToken(rem, args[j].Label)
                 /\ \A e \in 1..(j - 1) :
                        args[e].Label = <<>> \/ ~AcceptableSomewhere(rem, args[e].Label))
                => /\ output.err = NoErr
                   /\ output.argument = args[j]

(* C16: the occurrence of the label that is selected starts at index 0 of  *)
(* the remainder or right after a space.                                   *)
C16_StartsAtTokenBoundary ==
    (ExtractArgumentReturned /\ output.err = NoErr /\ output.argument.Label # <<>>) =>
        LET rem == input.remainingInput
            label == output.argument.Label
        IN  \E k \in 0..Len(rem) :
                /\ Occurs(rem, label, k)
                /\ PrecededByBoundary(rem, k)
                /\ output.optionsInput = Excised(rem, label, k)

----------------------------------------------------------------------------
(* The validators' claims.                                                 *)

\* the reorderings of a list of n elements
IndexPermutations(n) ==
    {f \in [1..n -> 1..n] : \A i, j \in 1..n : f[i] = f[j] => i = j}

\* the list s reordered by f
Permuted(s, f) == [i \in 1..Len(s) |-> s[f[i]]]

\* two Arguments of the list have the same label
HasRepeatedArgumentLabel(arguments) ==
    \E i, j \in 1..Len(arguments) : i # j /\ arguments[i].Label = arguments[j].Label

\* two Options of the list have the same label, the same short or the same long
HasRepeatedOption(options) ==
    \E i, j \in 1..Len(options) :
        /\ i # j
        /\ \/ options[i].Label = options[j].Label
           \/ options[i].Short # <<>> /\ options[i].Short = options[j].Short
           \/ options[i].Long # <<>> /\ options[i].Long = options[j].Long

(* C13: a Command whose Arguments repeat a label, and an Argument whose    *)
(* Options repeat a label, a short or a long, fail validation in every     *)
(* order of the list.                                                      *)
C13_DuplicatesAnyOrder ==
    /\ (pc = "Command.validate.returned" /\ HasRepeatedArgumentLabel(input.Arguments)) =>
            /\ output # NoErr
            /\ \A f \in IndexPermutations(Len(input.Arguments)) :
                    CommandValidate([input EXCEPT !.Arguments = Permuted(input.Arguments, f)])
                        # NoErr
    /\ (pc = "Argument.validate.returned" /\ HasRepeatedOption(input.Options)) =>
            /\ output # NoErr
            /\ \A f \in IndexPermutations(Len(input.Options)) :
                    ArgumentValidate([input EXCEPT !.Options = Permuted(input.Options, f)])
                        # NoErr

\* the two Options with the short -a stand apart, and validation fails
C13_Witness ==
    /\ pc = "Argument.validate.returned"
    /\ Len(input.Options) = 3
    /\ input.Options[1].Short = S("-a")
    /\ input.Options[2].Short = S("-e")
    /\ input.Options[3].Short = S("-a")
    /\ input.Options[1].Label # input.Options[3].Label
    /\ output = S("argument \"x\", multiple occurrences of the option short \"-a\"")

\* the two Arguments labelled daily-tasks stand apart, and validation fails
C13_WitnessCommand ==
    /\ pc = "Command.validate.returned"
    /\ Len(input.Arguments) = 3
    /\ input.Arguments[1].Label = S("daily-tasks")
    /\ input.Arguments[2].Label = <<>>
    /\ input.Arguments[3].Label = S("daily-tasks")
    /\ output # NoErr

\* lists without a repeat pass validation
C13_WitnessValid ==
    /\ pc = "Argument.validate.returned"
    /\ Len(input.Options) = 2
    /\ ~HasRepeatedOption(input.Options)
    /\ output = NoErr

----------------------------------------------------------------------------
(* The value token of a short-form Option.                                 *)

\* token i is the value of the short-form Option before it: token i - 1 is
\* the short form of an Option with a Variable and is not itself a value
RECURSIVE ConsumedAsValue(_, _, _)
ConsumedAsValue(toks, argument, i) ==
    /\ i > 1
    /\ toks[i - 1] # <<>>
    /\ IsShortWithVariable(argument, toks[i - 1])
    /\ ~ConsumedAsValue(toks, argument, i - 1)

(* C14: a token consumed as the value of a short-form Option sets no       *)
(* Option: an Option whose short and long forms occur in the options text  *)
(* only as such values keeps its default metadata.                         *)
C14_ValueSetsNoOption ==
    (pc = "extractFlags.returned" /\ output.err = NoErr) =>
        LET toks == TokensOf(input)
        IN  \A m \in 1..Len(input.argument.Options) :
                LET option == input.argument.Options[m]
                IN  (\A i \in 1..Len(toks) :
                        (toks[i] # <<>> /\ toks[i] \in {option.Short, option.Long})
                            => ConsumedAsValue(toks, input.argument, i))
                    => output.flags[option.Label]
                            = InitialMetadata(input.argument)[option.Label]

----------------------------------------------------------------------------
(* Binding that fails.                                                     *)

\* the handlers of a configuration: init, exit and every Argument's executable
Handlers(cfg) ==
    [init |-> cfg.init, exit |-> cfg.exit,
     executables |-> [i \in 1..Len(cfg.Commands) |->
                        [j \in 1..Len(cfg.Commands[i].Arguments) |->
                            cfg.Commands[i].Arguments[j].executable]]]

\* every handler of the configuration can be called
AllCallable(cfg) ==
    /\ cfg.init # NilFunc
    /\ cfg.exit # NilFunc
    /\ \A i \in 1..Len(cfg.Commands) : \A j \in 1..Len(cfg.Commands[i].Arguments) :
            cfg.Commands[i].Arguments[j].executable # NilFunc

(* C17: when Using returns an error, the handlers of the configuration are *)
(* the ones it had before the call, and none of them is nil.               *)
C17_FailedUsingKeepsHandlers ==
    [][(main = "new" /\ main' = "usingFailed" /\ AllCallable(config))
            => (Handlers(config') = Handlers(config) /\ AllCallable(config'))]_vars

====
